---- MODULE Spec2Model ----
(***************************************************************************)
(* The interview session life cycle of main.py: the in-memory session      *)
(* store active_interviews and the two handlers that change it,            *)
(* start_interview (POST /start-interview) and submit_response             *)
(* (POST /submit-response).                                                *)
(*                                                                         *)
(* Both handlers are `async def` bodies without an await, so each runs to  *)
(* its return or raise without interleaving: one action per handler call.  *)
(* A session is a Python dict that the handler mutates in place, so what a *)
(* handler has written before it raises stays in the store.                *)
(*                                                                         *)
(* interview_agent (FreeInterviewAgent) is imported by main.py and is not  *)
(* part of the sources at hand.  Its three methods are modelled by what    *)
(* the specification says they return; whether a call returns or raises is *)
(* left open, as main.py itself does with its `except Exception` clauses.  *)
(***************************************************************************)
EXTENDS Integers, Sequences, FiniteSets, Bags, TLC

VARIABLES
    question_templates, \* interview_agent.question_templates: for each valid
                        \* category a request names, the size of its bank
    active_interviews,  \* main.py:28  interview_id -> session dict
    now,                \* the wall clock read by datetime.now(), in ticks
    reply,              \* the request just handled and the HTTP reply to it
    answered,           \* history: interview_id -> number of 200 replies of
                        \* submit_response since that session was stored
    aggregated,         \* history: interview_id -> the arguments of the calls
                        \* of calculate_final_score since that session was
                        \* stored, in order
    inflight,           \* the requests the server has received and whose
                        \* handler has not run yet (a bag)
    log,                \* history: interview_id -> for each submit_response
                        \* call on that session, what raised and the
                        \* kind of reply
    ui,                 \* streamlit_app.py: st.session_state of one browser
    streams             \* the audio input streams opened so far: handle ->
                        \* whether the device still runs it

\* The backend: main.py and what it imports.
backend == <<question_templates, active_interviews, now, reply, answered,
             aggregated>>

\* What is outside the backend, and the histories only some of the
\* specifications below keep.
others == <<inflight, log, ui, streams>>

vars == <<backend, others>>

-----------------------------------------------------------------------------
(* Bounds and inputs *)

\* The count start_interview asks generate_questions for.
N == 8

\* Clock ticks per second: strftime('%Y%m%d_%H%M%S') drops what is below a
\* second, so TicksPerSecond successive instants share one timestamp.
TicksPerSecond == 2

\* The clock runs from 0 to MaxTime ticks.
MaxTime == 2

\* A short question bank holds at most MaxTemplates templates for a category.
MaxTemplates == 2

\* Sizes the bank of a category may have: short ones, exactly the count asked
\* for, and more than that.
Availables == (0..MaxTemplates) \cup {N, N + 1}

Users == {"default_user"}

\* Keys of interview_agent.question_templates (the ids of /categories).
ValidCategories == {"technical", "behavioral", "management", "sales"}

\* Categories a request may carry: one valid, one outside the fixed set.
CategoryInputs == {"technical", "bogus"}

\* Response texts a request may carry.
Texts == {"answer"}

\* Python's None, as stored in session["final_result"].
None == [tag |-> "None"]

Min(a, b) == IF a <= b THEN a ELSE b

\* Python's seq[i], 0-based.
At(seq, i) == seq[i + 1]

-----------------------------------------------------------------------------
(* interview_agent: FreeInterviewAgent *)

\* question_templates[category][i]
Template(category, i) == <<category, i>>

\* generate_questions(category, count): the first min(count, available)
\* templates of the category, in order.
generate_questions(category, count) ==
    [i \in 1..Min(count, question_templates[category]) |->
        Template(category, i - 1)]

\* analyze_response(question, response_text, category): a deterministic
\* function of its three arguments.
analyze_response(question, response_text, category) ==
    [tag |-> "Analysis", question |-> question,
     response_text |-> response_text, category |-> category]

\* calculate_final_score(scores): a function of the sequence of analyses.
calculate_final_score(scores) ==
    [tag |-> "FinalResult", analyses |-> scores]

-----------------------------------------------------------------------------
(* start_interview *)

\* datetime.now().strftime('%Y%m%d_%H%M%S')
strftime(t) == t \div TicksPerSecond

\* f"{user_id}_{timestamp}"
InterviewId(user_id, t) == <<user_id, strftime(t)>>

IsValidCategory(category) == category \in ValidCategories

\* Faulty variant of NoQuestions: the emptiness check is missing.
NoQuestionsUnchecked(questions) == FALSE

\* `not questions`
NoQuestions(questions) == Len(questions) = 0

\* Faulty variant of NewSession: the cursor starts at 1.
NewSessionOffByOne(interview_id, user_id, category, questions, t) ==
    [interview_id     |-> interview_id,
     user_id          |-> user_id,
     category         |-> category,
     questions        |-> questions,
     current_question |-> 1,
     responses        |-> <<>>,
     scores           |-> <<>>,
     status           |-> "active",
     start_time       |-> t,
     final_result     |-> None]

NewSession(interview_id, user_id, category, questions, t) ==
    [interview_id     |-> interview_id,
     user_id          |-> user_id,
     category         |-> category,
     questions        |-> questions,
     current_question |-> 0,
     responses        |-> <<>>,
     scores           |-> <<>>,
     status           |-> "active",
     start_time       |-> t,
     final_result     |-> None]

\* active_interviews[interview_id] = session
Register(store, interview_id, session) ==
    [k \in DOMAIN store \cup {interview_id} |->
        IF k = interview_id THEN session ELSE store[k]]

StartReply(session) ==
    [op              |-> "start-interview",
     status_code     |-> 200,
     user_id         |-> session.user_id,
     category        |-> session.category,
     interview_id    |-> session.interview_id,
     question        |-> At(session.questions, 0),
     question_index  |-> 0,
     total_questions |-> Len(session.questions)]

StartError(category, user_id, status_code, detail) ==
    [op          |-> "start-interview",
     status_code |-> status_code,
     detail      |-> detail,
     user_id     |-> user_id,
     category    |-> category]

\* One call of start_interview.  `raises`: generate_questions raises.
start_interview(category, user_id, raises) ==
    /\ IF ~IsValidCategory(category)
       THEN /\ reply' = StartError(category, user_id, 400, "Invalid category")
            /\ UNCHANGED <<active_interviews, answered, aggregated>>
       ELSE IF raises
       THEN /\ reply' = StartError(category, user_id, 500, "exception")
            /\ UNCHANGED <<active_interviews, answered, aggregated>>
       ELSE LET interview_id == InterviewId(user_id, now)
                questions    == generate_questions(category, N)
                session      == NewSession(interview_id, user_id, category,
                                           questions, now)
            IN  IF NoQuestions(questions)
                THEN /\ reply' = StartError(category, user_id, 500,
                                            "Could not generate questions")
                     /\ UNCHANGED <<active_interviews, answered, aggregated>>
                ELSE /\ active_interviews' =
                            Register(active_interviews, interview_id, session)
                     /\ answered' = Register(answered, interview_id, 0)
                     /\ aggregated' = Register(aggregated, interview_id, <<>>)
                     \* questions[0] of an empty list raises IndexError,
                     \* which `except Exception` turns into a 500.
                     /\ reply' = IF Len(questions) = 0
                                 THEN StartError(category, user_id, 500,
                                                 "exception")
                                 ELSE StartReply(session)
    /\ UNCHANGED <<now, question_templates>>

-----------------------------------------------------------------------------
(* submit_response *)

\* Faulty variant of IsCompleted: the status is never looked at.
IsCompletedIgnored(session) == FALSE

\* session["status"] == "completed"
IsCompleted(session) == session.status = "completed"

\* current_idx >= total
NoneRemaining(session) == session.current_question >= Len(session.questions)

\* Faulty variant of StoreResponse: a skip marker is not recorded.
StoreResponseUnlessSkipped(session, response_text) ==
    IF response_text = "(Skipped)" THEN session
    ELSE [session EXCEPT !.responses = Append(@, response_text)]

\* session["responses"].append(response_text)
StoreResponse(session, response_text) ==
    [session EXCEPT !.responses = Append(@, response_text)]

\* session["scores"].append(analysis)
StoreScore(session, analysis) ==
    [session EXCEPT !.scores = Append(@, analysis)]

\* session["current_question"] += 1
Advance(session) ==
    [session EXCEPT !.current_question = @ + 1]

\* Faulty variant of IsFinished: the interview ends one answer early.
IsFinishedEarly(session) ==
    session.current_question >= Len(session.questions) - 1

\* next_idx >= total
IsFinished(session) == session.current_question >= Len(session.questions)

\* Faulty variant of MarkCompleted: the status assignment is missing.
MarkCompletedSkipped(session) == session

\* session["status"] = "completed"
MarkCompleted(session) == [session EXCEPT !.status = "completed"]

\* session["final_result"] = final_result
StoreFinalResult(session, final_result) ==
    [session EXCEPT !.final_result = final_result]

SubmitError(interview_id, response_text, status_code, detail) ==
    [op            |-> "submit-response",
     status_code   |-> status_code,
     detail        |-> detail,
     interview_id  |-> interview_id,
     response_text |-> response_text]

\* Faulty variant of NotFound: an unknown id is answered like a completed session.
NotFoundAsCompleted(interview_id, response_text) ==
    SubmitError(interview_id, response_text, 400, "Interview already completed")

\* raise HTTPException(status_code=404, detail="Interview not found")
NotFound(interview_id, response_text) ==
    SubmitError(interview_id, response_text, 404, "Interview not found")

\* raise HTTPException(status_code=400, detail="Interview already completed")
AlreadyCompleted(interview_id, response_text) ==
    SubmitError(interview_id, response_text, 400, "Interview already completed")

\* The reply of the last question: final_result stands for the five fields
\* read from it with final_result.get.
CompleteReply(interview_id, response_text, final_result, analysis) ==
    [op                        |-> "submit-response",
     status_code               |-> 200,
     interview_id              |-> interview_id,
     response_text             |-> response_text,
     interview_complete        |-> TRUE,
     final_result              |-> final_result,
     current_response_analysis |-> analysis]

\* Faulty variant of ContinueReply: question_index is current_idx, not next_idx.
ContinueReplyStaleIndex(interview_id, response_text, session, analysis) ==
    [op                        |-> "submit-response",
     status_code               |-> 200,
     interview_id              |-> interview_id,
     response_text             |-> response_text,
     interview_complete        |-> FALSE,
     next_question             |-> At(session.questions,
                                      session.current_question),
     question_index            |-> session.current_question - 1,
     total_questions           |-> Len(session.questions),
     current_response_analysis |-> analysis]

ContinueReply(interview_id, response_text, session, analysis) ==
    [op                        |-> "submit-response",
     status_code               |-> 200,
     interview_id              |-> interview_id,
     response_text             |-> response_text,
     interview_complete        |-> FALSE,
     next_question             |-> At(session.questions,
                                      session.current_question),
     question_index            |-> session.current_question,
     total_questions           |-> Len(session.questions),
     current_response_analysis |-> analysis]

\* analyze_response is taken to raise only while every stored response of the
\* session has its analysis, so a session holds at most one response without
\* one; this keeps the response lists finite.
ScorerMayRaise(session) == Len(session.responses) = Len(session.scores)

\* The session dict is mutated in place: `stored` replaces it in the store.
Put(store, interview_id, stored) ==
    [store EXCEPT ![interview_id] = stored]

\* One call of submit_response.  scorer_raises: analyze_response raises;
\* aggregator_raises: calculate_final_score raises.  Either is caught by
\* `except Exception` and answered 500; the session keeps what was written
\* to it before the raise.  An analysis and a final result are dicts, so the
\* .get calls on them do not raise.
submit_response(interview_id, response_text, scorer_raises, aggregator_raises) ==
    /\ IF interview_id \notin DOMAIN active_interviews
       THEN /\ reply' = NotFound(interview_id, response_text)
            /\ UNCHANGED <<active_interviews, answered, aggregated>>
       ELSE LET session == active_interviews[interview_id] IN
            IF IsCompleted(session)
            THEN /\ reply' = AlreadyCompleted(interview_id, response_text)
                 /\ UNCHANGED <<active_interviews, answered, aggregated>>
            ELSE IF NoneRemaining(session)
            THEN /\ reply' = SubmitError(interview_id, response_text, 400,
                                         "All questions answered")
                 /\ UNCHANGED <<active_interviews, answered, aggregated>>
            ELSE LET current_question ==
                         At(session.questions, session.current_question)
                     s1 == StoreResponse(session, response_text)
                     analysis == analyze_response(current_question,
                                     response_text, session.category)
                     s2 == Advance(StoreScore(s1, analysis))
                     s3 == MarkCompleted(s2)
                     final_result == calculate_final_score(s3.scores)
                     s4 == StoreFinalResult(s3, final_result)
                 IN  IF scorer_raises
                     THEN /\ ScorerMayRaise(session)
                          /\ active_interviews' =
                                 Put(active_interviews, interview_id, s1)
                          /\ reply' = SubmitError(interview_id, response_text,
                                                  500, "exception")
                          /\ UNCHANGED <<answered, aggregated>>
                     ELSE IF ~IsFinished(s2)
                     THEN /\ active_interviews' =
                                 Put(active_interviews, interview_id, s2)
                          /\ reply' = ContinueReply(interview_id,
                                          response_text, s2, analysis)
                          /\ answered' = [answered EXCEPT ![interview_id] = @ + 1]
                          /\ UNCHANGED aggregated
                     ELSE IF aggregator_raises
                     THEN /\ active_interviews' =
                                 Put(active_interviews, interview_id, s3)
                          /\ reply' = SubmitError(interview_id, response_text,
                                                  500, "exception")
                          /\ aggregated' = [aggregated EXCEPT
                                 ![interview_id] = Append(@, s3.scores)]
                          /\ UNCHANGED answered
                     ELSE /\ active_interviews' =
                                 Put(active_interviews, interview_id, s4)
                          /\ reply' = CompleteReply(interview_id,
                                          response_text, final_result, analysis)
                          /\ answered' = [answered EXCEPT ![interview_id] = @ + 1]
                          /\ aggregated' = [aggregated EXCEPT
                                 ![interview_id] = Append(@, s3.scores)]
    /\ UNCHANGED <<now, question_templates>>

-----------------------------------------------------------------------------
(* The clock *)

Tick ==
    /\ now < MaxTime
    /\ now' = now + 1
    /\ UNCHANGED <<question_templates, active_interviews, reply, answered,
                   aggregated>>

-----------------------------------------------------------------------------
(* The frontend's st.session_state, as init_state() leaves it.  Of its keys *)
(* the model keeps those the properties below read; record_stream stands   *)
(* also for soundfile_obj and audio_tempfile, which are set and cleared    *)
(* together with it.                                                       *)

NoHandle == 0

\* Python's None where an interview id or a question is expected.
NoId == <<>>

init_state ==
    [interview_id  |-> NoId,
     question      |-> NoId,
     q_index       |-> 0,
     total_q       |-> 0,
     answer        |-> "",
     final_result  |-> None,
     is_recording  |-> FALSE,
     record_stream |-> NoHandle]

\* Nothing in flight, no frontend.
Idle ==
    /\ inflight = EmptyBag
    /\ log = <<>>
    /\ ui = init_state
    /\ streams = <<>>

-----------------------------------------------------------------------------

Init ==
    /\ Idle
    /\ question_templates \in
           [CategoryInputs \cap ValidCategories -> Availables]
    /\ active_interviews = <<>>
    /\ answered = <<>>
    /\ aggregated = <<>>
    /\ now = 0
    /\ reply = [op |-> "none"]

StartInterview ==
    \E category \in CategoryInputs, user_id \in Users, raises \in BOOLEAN :
        start_interview(category, user_id, raises)

\* Every id a request can name: those start_interview can generate.
InterviewIds == {InterviewId(u, t) : u \in Users, t \in 0..MaxTime}

SubmitResponse ==
    \E interview_id \in InterviewIds, response_text \in Texts,
       scorer_raises \in BOOLEAN, aggregator_raises \in BOOLEAN :
        submit_response(interview_id, response_text,
                        scorer_raises, aggregator_raises)

Next ==
    \/ StartInterview /\ UNCHANGED others
    \/ SubmitResponse /\ UNCHANGED others
    \/ Tick /\ UNCHANGED others

Spec == Init /\ [][Next]_vars

-----------------------------------------------------------------------------
(* Requests in flight.  uvicorn serves the app on one event loop: a request *)
(* that has arrived waits until the loop runs its handler, and the handler, *)
(* having no await, runs to its end before the loop runs another one.  No  *)
(* lock is taken anywhere in main.py.                                      *)

\* At most MaxInflight requests wait at a time.
MaxInflight == 2

StartRequest(category, user_id) ==
    [op |-> "start-interview", category |-> category, user_id |-> user_id]

SubmitRequest(interview_id, response_text) ==
    [op            |-> "submit-response",
     interview_id  |-> interview_id,
     response_text |-> response_text]

Requests ==
    {StartRequest(c, u) : c \in CategoryInputs, u \in Users}
    \cup {SubmitRequest(id, t) : id \in InterviewIds, t \in Texts}

\* A request arrives at the server.
Receive(request) ==
    /\ BagCardinality(inflight) < MaxInflight
    /\ inflight' = inflight (+) SetToBag({request})
    /\ UNCHANGED <<backend, log, ui, streams>>

\* The event loop runs the handler of a waiting request, to its end.
Handle(request) ==
    /\ BagIn(request, inflight)
    /\ inflight' = inflight (-) SetToBag({request})
    /\ IF request.op = "start-interview"
       THEN \E raises \in BOOLEAN :
                start_interview(request.category, request.user_id, raises)
       ELSE \E scorer_raises \in BOOLEAN, aggregator_raises \in BOOLEAN :
                submit_response(request.interview_id, request.response_text,
                                scorer_raises, aggregator_raises)
    /\ UNCHANGED <<log, ui, streams>>

NextConc ==
    \/ \E request \in Requests : Receive(request)
    \/ \E request \in Requests : Handle(request)
    \/ Tick /\ UNCHANGED others

SpecConc == Init /\ [][NextConc]_vars

-----------------------------------------------------------------------------
(* Runs that differ in their response texts.  Each stored session is one   *)
(* run of the controller; log keeps, for every /submit-response call made  *)
(* on it since it was started, the text sent, what the agent did during    *)
(* the call and what the call left behind.                                 *)

\* The text the frontend's Skip Question button sends.
SkipMarker == "(Skipped)"

AllTexts == Texts \cup {SkipMarker}

\* At most MaxCalls /submit-response calls are made on a session.
MaxCalls == 2

\* The kind of a reply of submit_response.
Tag(r) ==
    IF r.status_code # 200 THEN "error"
    ELSE IF r.interview_complete THEN "complete"
    ELSE "continue"

\* What a call leaves behind in its session.
Control(session) ==
    [current_question |-> session.current_question,
     status           |-> session.status,
     responses        |-> Len(session.responses),
     scores           |-> Len(session.scores)]

\* Which call to the agent raised during a call that ended as r.
Raised(r, scorer_raises) ==
    IF r.status_code # 500 THEN "none"
    ELSE IF scorer_raises THEN "scorer"
    ELSE "aggregator"

InitShortBanks ==
    /\ Idle
    /\ question_templates \in
           [CategoryInputs \cap ValidCategories -> 1..MaxTemplates]
    /\ active_interviews = <<>>
    /\ answered = <<>>
    /\ aggregated = <<>>
    /\ now = 0
    /\ reply = [op |-> "none"]

StartLogged ==
    /\ StartInterview
    /\ log' = IF reply'.status_code = 200
              THEN Register(log, reply'.interview_id, <<>>)
              ELSE log
    /\ UNCHANGED <<inflight, ui, streams>>

SubmitLogged ==
    \E interview_id \in InterviewIds, response_text \in AllTexts,
       scorer_raises \in BOOLEAN, aggregator_raises \in BOOLEAN :
        /\ interview_id \in DOMAIN log => Len(log[interview_id]) < MaxCalls
        /\ submit_response(interview_id, response_text,
                           scorer_raises, aggregator_raises)
        /\ log' = IF interview_id \notin DOMAIN log THEN log
                  ELSE [log EXCEPT ![interview_id] = Append(@,
                           [response_text |-> response_text,
                            raised  |-> Raised(reply', scorer_raises),
                            tag     |-> Tag(reply'),
                            control |-> Control(
                                active_interviews'[interview_id])])]
        /\ UNCHANGED <<inflight, ui, streams>>

NextTexts ==
    \/ StartLogged
    \/ SubmitLogged
    \/ Tick /\ UNCHANGED others

SpecTexts == InitShortBanks /\ [][NextTexts]_vars

-----------------------------------------------------------------------------
(* The Streamlit frontend, one browser session driving the backend.  Every *)
(* button runs its handler to the end; a handler that posts waits for the  *)
(* backend's reply inside safe_post, which gives None for an error status  *)
(* and for a reply that did not arrive in time.                            *)

\* The user_id the frontend sends.
FrontendUser == "user"

\* What the speech service returns for a recording.
Transcript == "answer"

\* At most MaxStreams audio input streams are opened.
MaxStreams == 2

\* The question page is shown: an interview is on and has no result yet.
QuestionPage ==
    /\ ui.interview_id # NoId
    /\ ui.final_result = None

\* safe_post: the body of a 200 reply that arrived, None otherwise.
safe_post(r, lost) == IF lost \/ r.status_code # 200 THEN None ELSE r

\* Start Interview button: what it does with resp.
AfterStart(state, resp) ==
    IF resp = None THEN state
    ELSE [state EXCEPT !.interview_id = resp.interview_id,
                       !.question     = resp.question,
                       !.q_index      = resp.question_index,
                       !.total_q      = resp.total_questions,
                       !.answer       = "",
                       !.final_result = None]

\* Submit Answer and Skip Question buttons: what they do with res.
AfterSubmit(state, res) ==
    IF res = None THEN state
    ELSE IF res.interview_complete
    THEN [state EXCEPT !.final_result = res.final_result]
    ELSE [state EXCEPT !.q_index       = res.question_index,
                       !.question      = res.next_question,
                       !.answer        = "",
                       !.is_recording  = FALSE,
                       !.record_stream = NoHandle]

UiStartInterview ==
    \E sel_cat \in CategoryInputs \cap ValidCategories,
       raises \in BOOLEAN, lost \in BOOLEAN :
        /\ ui.interview_id = NoId
        /\ start_interview(sel_cat, FrontendUser, raises)
        /\ ui' = AfterStart(ui, safe_post(reply', lost))
        /\ UNCHANGED <<inflight, log, streams>>

\* start_recording
StartRecording ==
    \E fails \in BOOLEAN :
        /\ QuestionPage
        /\ ~ui.is_recording
        /\ ui.answer = ""
        /\ Len(streams) < MaxStreams
        /\ IF fails
           THEN /\ ui' = [ui EXCEPT !.is_recording  = FALSE,
                                    !.record_stream = NoHandle]
                /\ streams' = streams
           ELSE /\ streams' = Append(streams, "running")
                /\ ui' = [ui EXCEPT !.is_recording  = TRUE,
                                    !.record_stream = Len(streams) + 1]
        /\ UNCHANGED <<backend, inflight, log>>

\* stop_recording_and_transcribe
StopAndTranscribe ==
    \E transcribed \in BOOLEAN :
        /\ QuestionPage
        /\ ui.is_recording
        /\ streams' = IF ui.record_stream = NoHandle THEN streams
                      ELSE [streams EXCEPT ![ui.record_stream] = "stopped"]
        /\ ui' = [ui EXCEPT
                    !.is_recording  = FALSE,
                    !.record_stream = NoHandle,
                    !.answer        = IF ~transcribed THEN @
                                      ELSE IF @ = "" THEN Transcript
                                      ELSE @ \o " " \o Transcript]
        /\ UNCHANGED <<backend, inflight, log>>

SubmitAnswer ==
    \E scorer_raises \in BOOLEAN, aggregator_raises \in BOOLEAN,
       lost \in BOOLEAN :
        /\ QuestionPage
        /\ ui.answer # ""
        /\ submit_response(ui.interview_id, ui.answer,
                           scorer_raises, aggregator_raises)
        /\ ui' = AfterSubmit(ui, safe_post(reply', lost))
        /\ UNCHANGED <<inflight, log, streams>>

SkipQuestion ==
    \E scorer_raises \in BOOLEAN, aggregator_raises \in BOOLEAN,
       lost \in BOOLEAN :
        /\ QuestionPage
        /\ submit_response(ui.interview_id, SkipMarker,
                           scorer_raises, aggregator_raises)
        /\ ui' = AfterSubmit(ui, safe_post(reply', lost))
        /\ UNCHANGED <<inflight, log, streams>>

\* Reset Interview and Start New Interview buttons.
reset_all ==
    /\ ui.interview_id # NoId
    /\ ui' = init_state
    /\ UNCHANGED <<backend, inflight, log, streams>>

NextUI ==
    \/ UiStartInterview
    \/ StartRecording
    \/ StopAndTranscribe
    \/ SubmitAnswer
    \/ SkipQuestion
    \/ reset_all
    \/ Tick /\ UNCHANGED others

SpecUI == InitShortBanks /\ [][NextUI]_vars

-----------------------------------------------------------------------------
(* Properties *)

Stored == DOMAIN active_interviews

\* A step that handled a /submit-response request: the clock stands still
\* and the reply is one of submit_response.
SubmitStep == now' = now /\ reply'.op = "submit-response"

\* A step that handled a /start-interview request.
StartStep == now' = now /\ reply'.op = "start-interview"

\* C1: in every stored session len(responses) = len(scores) =
\* current_question <= len(questions), also after calls that end in an error.
C1_ListsMatchCursor ==
    \A id \in Stored :
        LET s == active_interviews[id]
        IN  /\ Len(s.responses) = Len(s.scores)
            /\ Len(s.scores) = s.current_question
            /\ s.current_question <= Len(s.questions)

\* C2: a stored session has status "completed" exactly when its
\* current_question equals its number of questions.
C2_CompletedIffCursorAtTotal ==
    \A id \in Stored :
        LET s == active_interviews[id]
        IN  (s.status = "completed") <=> (s.current_question = Len(s.questions))

\* C2 witness: an interview of N questions answered to the end, and an
\* active one beside it.
C2_Witness ==
    /\ \E id \in Stored :
          LET s == active_interviews[id]
          IN  /\ s.status = "completed"
              /\ Len(s.questions) = N
              /\ s.current_question = N
    /\ \E id \in Stored :
          LET s == active_interviews[id]
          IN  s.status = "active" /\ s.current_question > 0

\* C3: final_result is None exactly while the session is active, and a
\* final_result that is set is never changed afterwards.
C3_ReportSetOnceOnCompletion ==
    [][\A id \in DOMAIN active_interviews' :
          LET t == active_interviews'[id]
          IN  /\ (t.final_result = None) <=> (t.status = "active")
              /\ (id \in Stored /\ active_interviews[id].final_result # None)
                    => t.final_result = active_interviews[id].final_result]_vars

\* C4: submit_response on a completed session is answered 400 "Interview
\* already completed" and leaves the store as it was.
C4_CompletedSessionRejects ==
    [][(/\ SubmitStep
        /\ reply'.interview_id \in Stored
        /\ active_interviews[reply'.interview_id].status = "completed")
       => (/\ reply'.status_code = 400
           /\ reply'.detail = "Interview already completed"
           /\ active_interviews' = active_interviews)]_vars

\* C4 witness: the rejection was given for a session completed with its
\* final result.
C4_Witness ==
    /\ reply.op = "submit-response"
    /\ reply.status_code = 400
    /\ reply.detail = "Interview already completed"
    /\ reply.interview_id \in Stored
    /\ active_interviews[reply.interview_id].final_result # None

\* C5: submit_response with an id that is not in the store is answered 404
\* and leaves the whole store as it was.
C5_UnknownIdRejects ==
    [][(SubmitStep /\ reply'.interview_id \notin Stored)
       => (/\ reply'.status_code = 404
           /\ reply'.detail = "Interview not found"
           /\ active_interviews' = active_interviews)]_vars

\* C5 witness: a 404 given while the store holds another session.
C5_Witness ==
    /\ reply.op = "submit-response"
    /\ reply.status_code = 404
    /\ reply.interview_id \notin Stored
    /\ Stored # {}

\* C6: a start_interview call that fails (400 for a category outside the
\* fixed set, 500 otherwise) leaves the store as it was.
C6_FailedStartLeavesStore ==
    [][(StartStep /\ reply'.status_code # 200)
       => active_interviews' = active_interviews]_vars

\* C6 witness: a category outside the fixed set was refused while the store
\* holds a session with answers.
C6_Witness ==
    /\ reply.op = "start-interview"
    /\ reply.status_code = 400
    /\ reply.detail = "Invalid category"
    /\ \E id \in Stored : active_interviews[id].current_question > 0

\* C6, the other failure: question generation failed on an empty bank.
C6_GenerationFailed ==
    /\ reply.op = "start-interview"
    /\ reply.status_code = 500
    /\ reply.detail = "Could not generate questions"
    /\ question_templates[reply.category] = 0

C8_FreshId ==
    [][(StartStep /\ reply'.status_code = 200)
       => (/\ reply'.interview_id \notin Stored
           /\ DOMAIN active_interviews' = Stored \cup {reply'.interview_id}
           /\ \A id \in Stored :
                 active_interviews'[id] = active_interviews[id])]_vars

\* C9: after a successful start_interview the stored session has cursor 0,
\* no responses, no analyses, status active and no final result, and the
\* reply carries questions[0], question_index 0 and total_questions equal to
\* the number of stored questions, min(N, available templates).
C9_FreshSession ==
    (reply.op = "start-interview" /\ reply.status_code = 200)
    => /\ reply.interview_id \in Stored
       /\ LET s == active_interviews[reply.interview_id]
          IN  /\ s.current_question = 0
              /\ s.responses = <<>>
              /\ s.scores = <<>>
              /\ s.status = "active"
              /\ s.final_result = None
              /\ s.category = reply.category
              /\ reply.question = At(s.questions, 0)
              /\ reply.question_index = 0
              /\ reply.total_questions = Len(s.questions)
              /\ reply.total_questions =
                    Min(N, question_templates[reply.category])

\* C9 witness: a session started over a bank of more than N templates, while
\* an older session is stored.
C9_Witness ==
    /\ reply.op = "start-interview"
    /\ reply.status_code = 200
    /\ question_templates[reply.category] > N
    /\ reply.total_questions = N
    /\ Cardinality(Stored) > 1

\* C10: for a session of n questions the k-th successful submit_response,
\* 1 <= k < n, replies interview_complete false with question_index k,
\* next_question questions[k] and the analysis of the response just
\* submitted; the n-th replies interview_complete true with the final result
\* and the last analysis; no earlier one replies interview_complete true.
C10_ContinueThenComplete ==
    (reply.op = "submit-response" /\ reply.status_code = 200)
    => /\ reply.interview_id \in Stored
       /\ LET s == active_interviews[reply.interview_id]
              k == answered[reply.interview_id]
              n == Len(s.questions)
              analysis == analyze_response(At(s.questions, k - 1),
                              reply.response_text, s.category)
          IN  /\ k \in 1..n
              /\ reply.current_response_analysis = analysis
              /\ At(s.scores, k - 1) = analysis
              /\ reply.interview_complete <=> (k = n)
              /\ k < n => /\ reply.question_index = k
                          /\ reply.next_question = At(s.questions, k)
                          /\ reply.total_questions = n
              /\ k = n => /\ reply.final_result = s.final_result
                          /\ reply.final_result =
                                calculate_final_score(s.scores)
                          /\ Len(s.scores) = n

\* C10 witness: the N-th answer of an N-question interview was accepted.
C10_Witness ==
    /\ reply.op = "submit-response"
    /\ reply.status_code = 200
    /\ reply.interview_complete
    /\ answered[reply.interview_id] = N

\* C10 witness of the other case: the reply to an answer before the last.
C10_ContinueReached ==
    /\ reply.op = "submit-response"
    /\ reply.status_code = 200
    /\ ~reply.interview_complete
    /\ reply.question_index = N - 1

\* C11: a submit_response call that is answered with an error, the 500 of a
\* raising scorer or aggregator included, leaves the store as it was.
C11_FailedSubmitLeavesStore ==
    [][(SubmitStep /\ reply'.status_code # 200)
       => active_interviews' = active_interviews]_vars

\* C12: the session stored under an id, once completed, is completed in
\* every later state, and the cursor stored under an id never decreases.
C12_CompletedIsAbsorbing ==
    [][\A id \in Stored :
          /\ id \in DOMAIN active_interviews'
          /\ active_interviews[id].status = "completed"
                => active_interviews'[id].status = "completed"
          /\ active_interviews'[id].current_question
                >= active_interviews[id].current_question]_vars

\* C16: a session with status active has its cursor below its number of
\* questions, so submit_response never answers "All questions answered".
C16_DefensiveCheckUnreachable ==
    /\ \A id \in Stored :
          LET s == active_interviews[id]
          IN  s.status = "active" => s.current_question < Len(s.questions)
    /\ reply.op = "submit-response" /\ reply.status_code = 400
          => reply.detail = "Interview already completed"

\* C16 witness: a submission arrived for a session whose cursor is at its
\* total, and the completed check refused it.
C16_Witness ==
    /\ reply.op = "submit-response"
    /\ reply.status_code = 400
    /\ reply.interview_id \in Stored
    /\ LET s == active_interviews[reply.interview_id]
       IN  s.current_question >= Len(s.questions)

\* C15: calculate_final_score is called only by the submission that makes
\* the cursor reach the number of questions, at most once per stored
\* session, and on the full sequence of analyses, the last one included;
\* never on an empty sequence.
C15_AggregatesOnceOnAll ==
    \A id \in Stored :
        LET s     == active_interviews[id]
            calls == aggregated[id]
        IN  /\ Len(calls) <= 1
            /\ Len(calls) = 1 <=> s.status = "completed"
            /\ Len(calls) = 1 =>
                  /\ calls[1] = s.scores
                  /\ Len(calls[1]) = Len(s.questions)
                  /\ Len(calls[1]) >= 1
                  /\ s.current_question = Len(s.questions)
                  /\ calls[1][Len(calls[1])].question =
                        At(s.questions, Len(s.questions) - 1)

\* C15 witness: the aggregator was called on the N analyses of a finished
\* interview.
C15_Witness ==
    \E id \in Stored :
        /\ Len(aggregated[id]) = 1
        /\ Len(aggregated[id][1]) = N
        /\ active_interviews[id].final_result =
              calculate_final_score(aggregated[id][1])

\* The number of submissions to the session `id` that wait in flight.
SubmitsInFlight(id) ==
    LET waiting == {r \in BagToSet(inflight) :
                       r.op = "submit-response" /\ r.interview_id = id}
    IN  IF waiting = {} THEN 0
        ELSE IF Cardinality(waiting) > 1 THEN 2
        ELSE CopiesIn(CHOOSE r \in waiting : TRUE, inflight)

\* C13: when two submissions to the same active session are in flight
\* together, running either leaves the session as a serial execution
\* would: a successful one has recorded its response and its analysis at
\* the same position and advanced the cursor by exactly 1, and the lengths
\* of responses and analyses equal the cursor.
C13_ConcurrentSubmitsKeepParity ==
    [][(/\ SubmitStep
        /\ reply'.interview_id \in Stored
        /\ active_interviews[reply'.interview_id].status = "active"
        /\ SubmitsInFlight(reply'.interview_id) >= 2)
       => LET s == active_interviews[reply'.interview_id]
              t == active_interviews'[reply'.interview_id]
              k == t.current_question
          IN  /\ Len(t.responses) = k
              /\ Len(t.scores) = k
              /\ reply'.status_code = 200
                    => /\ k = s.current_question + 1
                       /\ At(t.responses, k - 1) = reply'.response_text
                       /\ At(t.scores, k - 1) =
                             reply'.current_response_analysis]_vars

\* The first n calls of the runs a and b met the same agent behaviour.
SameAgent(a, b, n) ==
    \A j \in 1..n : log[a][j].raised = log[b][j].raised

\* C14: two runs over equally many questions that differ only in the texts
\* submitted show, call by call, the same cursor, status, list lengths and
\* result tag; a skip marker is an answer like any other.
C14_TextsDoNotSteer ==
    \A a \in DOMAIN log, b \in DOMAIN log :
        Len(active_interviews[a].questions) = Len(active_interviews[b].questions)
        => \A i \in 1..Min(Len(log[a]), Len(log[b])) :
               SameAgent(a, b, i)
               => /\ log[a][i].tag = log[b][i].tag
                  /\ log[a][i].control = log[b][i].control

\* Two runs of the same agent behaviour, one answering where the other
\* skips, both carried to completion.
C14_Witness ==
    \E a \in DOMAIN log, b \in DOMAIN log :
        /\ Len(log[a]) >= 2 /\ Len(log[b]) = Len(log[a])
        /\ SameAgent(a, b, Len(log[a]))
        /\ \A i \in 1..Len(log[a]) :
               /\ log[a][i].response_text = SkipMarker
               /\ log[b][i].response_text # SkipMarker
        /\ log[a][Len(log[a])].tag = "complete"
        /\ log[a][1].tag = "continue"

\* C17: whenever the frontend can post an answer, the question it shows is
\* the one the backend will score the answer against: q_index is the
\* cursor of the backend's session and question is questions[cursor].
C17_FrontendShowsBackendQuestion ==
    QuestionPage
    => /\ ui.interview_id \in Stored
       /\ LET s == active_interviews[ui.interview_id]
          IN  /\ ui.q_index = s.current_question
              /\ s.current_question < Len(s.questions)
              /\ ui.question = At(s.questions, s.current_question)

\* C18: while is_recording is false no audio input stream is running.
C18_NoStreamRunsUnrecorded ==
    ~ui.is_recording
    => \A h \in 1..Len(streams) : streams[h] # "running"

====
